---- MODULE Spec2Model ----
(***************************************************************************)
(* A model of babelfish/language.py: the process-wide registry of language *)
(* converters (LANGUAGE_CONVERTERS), the attributes that registration adds *)
(* to and removes from the Language class, and Language construction.      *)
(***************************************************************************)
EXTENDS Integers, Sequences, FiniteSets, TLC

VARIABLES
    LANGUAGE_CONVERTERS,  \* the registry dict: scheme name -> converter instance
    LanguageAttrs,        \* the 'from...' attributes of the Language class
    nextInst,             \* number of converter instances created so far
    last,                 \* the registry call that just returned, and how
    prev,                 \* the registry call before it
    pc, tname, tep, texc, tret,   \* the threads calling get_language_converter
    call, result,         \* a Language(...) construction and its outcome
    installed             \* whether the package's entry points are installed

regVars == <<LANGUAGE_CONVERTERS, LanguageAttrs, nextInst>>
seqVars == <<last, prev>>
thrVars == <<pc, tname, tep, texc, tret>>
langVars == <<call, result>>
envVars == <<installed>>
vars == <<LANGUAGE_CONVERTERS, LanguageAttrs, nextInst, last, prev,
          pc, tname, tep, texc, tret, call, result, installed>>

----------------------------------------------------------------------------
(* Bounds *)

\* Converter instances created in one run of the registry.
MaxInst == 3

----------------------------------------------------------------------------
(* Names, converter classes and the discovery mechanism *)

\* Scheme names the callers use.  "alpha2" and "scope" are advertised by the
\* entry point; "test" and "code" are not.
Names == {"alpha2", "scope", "test", "code"}

\* The two kinds of converter class: LanguageReverseConverter subclasses and
\* plain (forward-only) LanguageConverter subclasses.
ReverseClass == "LanguageReverseConverter"
ForwardClass == "LanguageConverter"
ConverterClasses == {ReverseClass, ForwardClass}

\* The entry points of the group 'babelfish.language_converters' that the
\* package declares, in iteration order.
EntryPoints ==
    << [name |-> "alpha2", load |-> ReverseClass],
       [name |-> "scope",  load |-> ForwardClass] >>

\* iter_entry_points('babelfish.language_converters'): the declared entry
\* points where the package is installed, none where it is not.
iter_entry_points == IF installed THEN EntryPoints ELSE <<>>

Advertised == {iter_entry_points[i].name : i \in 1..Len(iter_entry_points)}

\* Exceptions, by the raise statement that produces them.
NoExc == "none"
AlreadyExists == "ValueError: Converter already exists"
DoesNotExist == "ValueError: Converter does not exist"
UnknownScheme == "KeyError"
NoAttribute == "AttributeError"

NoInstance == [id |-> -1, class |-> "none"]
NoName == "-"

\* isinstance(LANGUAGE_CONVERTERS[name], LanguageReverseConverter)
IsReverse(inst) == inst.class = ReverseClass

\* 'from' + name
FromAttr(name) == "from" \o name

\* The value of a class attribute: the classmethod written in the class body,
\* or partial(Language.fromcode, converter=name).
ClassMethod == [kind |-> "classmethod", converter |-> NoName]
Partial(name) == [kind |-> "partial", converter |-> name]

\* The class body of Language defines fromcode and fromietf.
ClassBody == [a \in {"fromcode", "fromietf"} |-> ClassMethod]

----------------------------------------------------------------------------
(* The registry functions, as functions of the world they run in.  A world *)
(* is [conv, attrs, next, exc, ret]: the dict, the class attributes, the   *)
(* instance counter, the exception raised (NoExc) and the value returned.  *)

World(conv, attrs, next) ==
    [conv |-> conv, attrs |-> attrs, next |-> next, exc |-> NoExc, ret |-> NoInstance]

Raise(w, e) == [w EXCEPT !.exc = e, !.ret = NoInstance]
Return(w, v) == [w EXCEPT !.exc = NoExc, !.ret = v]

\* d[k] = v
SetItem(d, k, v) == [x \in (DOMAIN d) \cup {k} |-> IF x = k THEN v ELSE d[x]]
\* del d[k]
DelItem(d, k) == [x \in (DOMAIN d) \ {k} |-> d[x]]

\* converter(): a new object, distinct from every earlier one
Instantiate(w, converter) == [id |-> w.next, class |-> converter]

\* setattr(Language, 'from' + name, partial(Language.fromcode, converter=name)).
\* Evaluating Language.fromcode raises AttributeError when the class has no such
\* attribute; a partial of a partial keeps the innermost function.
SetFromAttr(w, name) ==
    IF "fromcode" \in DOMAIN w.attrs
    THEN [w EXCEPT !.attrs = SetItem(w.attrs, FromAttr(name), Partial(name))]
    ELSE Raise(w, NoAttribute)

\* delattr(Language, 'from' + name)
DelFromAttr(w, name) ==
    IF FromAttr(name) \in DOMAIN w.attrs
    THEN [w EXCEPT !.attrs = DelItem(w.attrs, FromAttr(name))]
    ELSE Raise(w, NoAttribute)

\* A register without the 'already exists' check: it overwrites.
register_overwrites(w, name, converter) ==
    LET inst == Instantiate(w, converter)
        w1 == [w EXCEPT !.conv = SetItem(w.conv, name, inst),
                        !.next = w.next + 1]
    IN  IF IsReverse(w1.conv[name]) THEN SetFromAttr(w1, name) ELSE w1

register_language_converter(w, name, converter) ==
    IF name \in DOMAIN w.conv
    THEN Raise(w, AlreadyExists)
    ELSE LET inst == Instantiate(w, converter)
             w1 == [w EXCEPT !.conv = SetItem(w.conv, name, inst),
                             !.next = w.next + 1]
         IN  IF IsReverse(w1.conv[name]) THEN SetFromAttr(w1, name) ELSE w1

\* An unregister that takes a missing name for done.
unregister_ignores_missing(w, name) ==
    IF name \notin DOMAIN w.conv
    THEN w
    ELSE LET w1 == IF IsReverse(w.conv[name]) THEN DelFromAttr(w, name) ELSE w
         IN  IF w1.exc # NoExc THEN w1
             ELSE [w1 EXCEPT !.conv = DelItem(w1.conv, name)]

\* An unregister that removes the constructor and forgets the dict entry.
unregister_keeps_binding(w, name) ==
    IF name \notin DOMAIN w.conv
    THEN Raise(w, DoesNotExist)
    ELSE IF IsReverse(w.conv[name]) THEN DelFromAttr(w, name) ELSE w

unregister_language_converter(w, name) ==
    IF name \notin DOMAIN w.conv
    THEN Raise(w, DoesNotExist)
    ELSE LET w1 == IF IsReverse(w.conv[name]) THEN DelFromAttr(w, name) ELSE w
         IN  IF w1.exc # NoExc THEN w1
             ELSE [w1 EXCEPT !.conv = DelItem(w1.conv, name)]

\* The entry points named name, in iteration order.
Matching(name) == {i \in 1..Len(iter_entry_points) : iter_entry_points[i].name = name}
FirstMatching(name) == CHOOSE i \in Matching(name) : \A j \in Matching(name) : i <= j

\* A get that does not use the cached instance: it makes a new one per call.
get_reinstantiates(w, name) ==
    IF name \in DOMAIN w.conv
    THEN Return([w EXCEPT !.next = w.next + 1], Instantiate(w, w.conv[name].class))
    ELSE IF Matching(name) # {}
         THEN LET w1 == register_language_converter(
                            w, name, iter_entry_points[FirstMatching(name)].load)
              IN  IF w1.exc # NoExc THEN w1 ELSE Return(w1, w1.conv[name])
         ELSE Raise(w, UnknownScheme)

get_language_converter(w, name) ==
    IF name \in DOMAIN w.conv
    THEN Return(w, w.conv[name])
    ELSE IF Matching(name) # {}
         THEN LET w1 == register_language_converter(
                            w, name, iter_entry_points[FirstMatching(name)].load)
              IN  IF w1.exc # NoExc THEN w1 ELSE Return(w1, w1.conv[name])
         ELSE Raise(w, UnknownScheme)

\* for ep in iter_entry_points(...): register_language_converter(ep.name, ep.load())
RECURSIVE LoadFrom(_, _)
LoadFrom(w, i) ==
    IF i > Len(iter_entry_points) \/ w.exc # NoExc
    THEN w
    ELSE LoadFrom(register_language_converter(w, iter_entry_points[i].name, iter_entry_points[i].load),
                  i + 1)

\* load_language_converters undoing its registrations when one of them fails.
load_all_or_nothing(w) ==
    LET r == LoadFrom(w, 1)
    IN  IF r.exc # NoExc THEN Raise(w, r.exc) ELSE r

load_language_converters(w) == LoadFrom(w, 1)

\* for name in set(LANGUAGE_CONVERTERS.keys()): unregister_language_converter(name)
\* order is the order in which the set of keys is iterated.
RECURSIVE UnregisterEach(_, _)
UnregisterEach(w, order) ==
    IF order = <<>> \/ w.exc # NoExc
    THEN w
    ELSE UnregisterEach(unregister_language_converter(w, Head(order)), Tail(order))

clear_language_converters(w, order) == UnregisterEach(w, order)

\* The orders in which a set can be iterated.
Orders(S) == {s \in [1..Cardinality(S) -> S] : \A i, j \in DOMAIN s : i # j => s[i] # s[j]}

----------------------------------------------------------------------------
(* Language construction *)

\* None
None == "None"

\* LANGUAGES: the alpha3 column of data/iso-639-3.tab, a few of its rows.
LANGUAGES == {"fra", "eng", "srp", "und"}

\* Strings a caller may pass for a language: the valid codes and some that are
\* in no row of the table.
LanguageCodes == LANGUAGES \cup {"zzz", "zzzz", "fr"}

\* The closed tables Country and Script validate against, a few rows of each.
COUNTRIES == {"US", "FR"}
SCRIPTS == {"Latn", "Cyrl"}

InvalidLanguage == "ValueError: not a valid language"
InvalidCountry == "ValueError: not a valid country"
InvalidScript == "ValueError: not a valid script"

\* An argument for country or script: None, a raw code, or an instance of the
\* class (which holds a valid code).
NoneArg == [type |-> "NoneType", code |-> None]
StrArg(code) == [type |-> "str", code |-> code]
ObjArg(class, code) == [type |-> class, code |-> code]

CountryArgs ==
    {NoneArg} \cup {StrArg(c) : c \in COUNTRIES \cup {"ZZ"}}
              \cup {ObjArg("Country", c) : c \in COUNTRIES}
ScriptArgs ==
    {NoneArg} \cup {StrArg(c) : c \in SCRIPTS \cup {"Wxyz"}}
              \cup {ObjArg("Script", c) : c \in SCRIPTS}

\* A Language: its three fields, the country and the script by their codes.
LanguageValue(alpha3, country, script) ==
    [alpha3 |-> alpha3, country |-> country, script |-> script]
NoLanguage == LanguageValue(None, None, None)

Failed(e) == [done |-> TRUE, exc |-> e, value |-> NoLanguage]
Made(v) == [done |-> TRUE, exc |-> NoExc, value |-> v]
NoResult == [done |-> FALSE, exc |-> NoExc, value |-> NoLanguage]

\* Country(code): the code when the table has it, ValueError otherwise.
Country(code) == IF code \in COUNTRIES THEN Made(code) ELSE Failed(InvalidCountry)
\* Script(code)
Script(code) == IF code \in SCRIPTS THEN Made(code) ELSE Failed(InvalidScript)

\* Lines 65-71 and 72-78: keep an instance, keep None, construct from a raw code.
Normalize(arg, class) ==
    IF arg.type = class THEN Made(arg.code)
    ELSE IF arg.type = "NoneType" THEN Made(None)
    ELSE IF class = "Country" THEN Country(arg.code) ELSE Script(arg.code)

\* A Language.__init__ that takes the fallback on trust.
Language_init_trusts_unknown(language, country, script, unknown) ==
    LET lang == IF unknown # None /\ language \notin LANGUAGES THEN unknown ELSE language
        c == Normalize(country, "Country")
        s == Normalize(script, "Script")
    IN  IF unknown = None /\ lang \notin LANGUAGES THEN Failed(InvalidLanguage)
        ELSE IF c.exc # NoExc THEN c
        ELSE IF s.exc # NoExc THEN s
        ELSE Made(LanguageValue(lang, c.value, s.value))

\* Language(language, country=None, script=None, unknown=None)
Language_init(language, country, script, unknown) ==
    LET lang == IF unknown # None /\ language \notin LANGUAGES THEN unknown ELSE language
        c == Normalize(country, "Country")
        s == Normalize(script, "Script")
    IN  IF lang \notin LANGUAGES THEN Failed(InvalidLanguage)
        ELSE IF c.exc # NoExc THEN c
        ELSE IF s.exc # NoExc THEN s
        ELSE Made(LanguageValue(lang, c.value, s.value))

\* The constructions the callers make.
Constructions ==
    [language : LanguageCodes, country : CountryArgs, script : ScriptArgs,
     unknown : LanguageCodes \cup {None}]
NoConstruction ==
    [language |-> "und", country |-> NoneArg, script |-> NoneArg, unknown |-> None]

\* Language(call.language, call.country, call.script, unknown=call.unknown)
Construct ==
    /\ ~result.done
    /\ result' = Language_init(call.language, call.country, call.script, call.unknown)
    /\ UNCHANGED <<call, regVars, seqVars, thrVars, envVars>>

----------------------------------------------------------------------------
(* Strings.  A code or a subtag is a string without '-'; a tag is the      *)
(* sequence of its pieces, <<"fr", "-", "FR">> for 'fr-FR'.                *)

\* Subtags a tag may have after its language subtag.
MaxSubtags == 3

Hyphen == "-"

\* The strings of the model in their lower, upper and capitalized forms.
CaseForms ==
    { <<"fr", "FR", "Fr">>, <<"en", "EN", "En">>, <<"sr", "SR", "Sr">>,
      <<"us", "US", "Us">>, <<"zz", "ZZ", "Zz">>,
      <<"fra", "FRA", "Fra">>, <<"eng", "ENG", "Eng">>, <<"srp", "SRP", "Srp">>,
      <<"und", "UND", "Und">>, <<"zzz", "ZZZ", "Zzz">>,
      <<"latn", "LATN", "Latn">>, <<"cyrl", "CYRL", "Cyrl">>,
      <<"wxyz", "WXYZ", "Wxyz">>, <<"", "", "">> }

FormsOf(str) == CHOOSE t \in CaseForms : str \in {t[1], t[2], t[3]}
\* str.lower(), str.upper(), str.capitalize()
Lower(str) == FormsOf(str)[1]
Upper(str) == FormsOf(str)[2]
Capitalize(str) == FormsOf(str)[3]

\* s += '-' + piece
Append2(text, piece) == text \o <<Hyphen, piece>>

\* '-'.join(subtags)
RECURSIVE Join(_)
Join(subtags) ==
    IF Len(subtags) = 1 THEN <<subtags[1]>>
    ELSE Append2(Join(SubSeq(subtags, 1, Len(subtags) - 1)), subtags[Len(subtags)])

\* ietf.split('-'): the pieces between the hyphens
RECURSIVE Split(_)
Split(text) ==
    IF Len(text) <= 1 THEN text
    ELSE IF text[2] = Hyphen THEN <<text[1]>> \o Split(SubSeq(text, 3, Len(text)))
    ELSE Split(<<text[1] \o text[2]>> \o SubSeq(text, 3, Len(text)))

----------------------------------------------------------------------------
(* The converters behind the scheme names *)

LanguageConvertError == "LanguageConvertError"
LanguageReverseError == "LanguageReverseError"

\* The alpha2 column of the language table: 'und' has none.
TO_ALPHA2 == [a \in {"fra", "eng", "srp"} |->
                 IF a = "fra" THEN "fr" ELSE IF a = "eng" THEN "en" ELSE "sr"]
\* The scope column.
TO_SCOPE == [a \in LANGUAGES |-> IF a = "und" THEN "S" ELSE "I"]
\* TestConverter.to_test
TO_TEST == [a \in {"fra", "eng"} |-> IF a = "fra" THEN "test1" ELSE "test2"]

\* The forward table of the converter bound to name: the advertised class for
\* an advertised name, the tests' TestConverter for any other.
ForwardTable(name) ==
    IF name = "alpha2" THEN TO_ALPHA2
    ELSE IF name = "scope" THEN TO_SCOPE
    ELSE TO_TEST

Converted(exc, code) == [exc |-> exc, code |-> code]

\* converter.convert(alpha3, country, script)
convert(name, alpha3, country, script) ==
    IF alpha3 \notin DOMAIN ForwardTable(name)
    THEN Converted(LanguageConvertError, None)
    ELSE Converted(NoExc, ForwardTable(name)[alpha3])

\* converter.reverse(code): the alpha3 of the tuple it returns
reverse(name, code) ==
    LET t == ForwardTable(name)
        from == {a \in DOMAIN t : t[a] = code}
    IN  IF from = {}
        THEN Converted(LanguageReverseError, None)
        ELSE Converted(NoExc, CHOOSE a \in from : TRUE)

----------------------------------------------------------------------------
(* The operations of Language that go through the registry.  Each takes    *)
(* the world it runs in and gives back the world it leaves, with its       *)
(* exception, the Language or the text it returns, and for the format      *)
(* error the subtags the message names.                                    *)

\* hash(text): a value that the text alone determines
HashOf(text) == [hash |-> text]
NoHash == HashOf(<<"no hash">>)

Out(w, exc, value, text, rest) ==
    [w |-> w, exc |-> exc, value |-> value,
     text |-> text, rest |-> rest, hash |-> NoHash]

OutRaise(w, exc) == Out(w, exc, NoLanguage, <<>>, <<>>)
OutValue(w, value) == Out(w, NoExc, value, <<>>, <<>>)
OutText(w, text) == Out(w, NoExc, NoLanguage, text, <<>>)

WrongFormat == "ValueError: Wrong IETF format. Unmatched subtags"

\* __getattr__ taking a failed conversion for a missing attribute.
Language_getattr_hides_convert_error(w, self, name) ==
    LET g == get_language_converter(w, name)
    IN  IF g.exc = UnknownScheme THEN OutRaise(g, NoAttribute)
        ELSE IF g.exc # NoExc THEN OutRaise(g, g.exc)
        ELSE LET c == convert(name, self.alpha3, self.country, self.script)
             IN  IF c.exc # NoExc THEN OutRaise(g, NoAttribute)
                 ELSE OutText(g, <<c.code>>)

\* Language.__getattr__(self, name)
Language_getattr(w, self, name) ==
    LET g == get_language_converter(w, name)
    IN  IF g.exc = UnknownScheme THEN OutRaise(g, NoAttribute)
        ELSE IF g.exc # NoExc THEN OutRaise(g, g.exc)
        ELSE LET c == convert(name, self.alpha3, self.country, self.script)
             IN  IF c.exc # NoExc THEN OutRaise(g, c.exc)
                 ELSE OutText(g, <<c.code>>)

\* Language.fromcode(code, converter)
Language_fromcode(w, code, converter) ==
    LET g == get_language_converter(w, converter)
    IN  IF g.exc # NoExc THEN OutRaise(g, g.exc)
        ELSE LET r == reverse(converter, code)
             IN  IF r.exc # NoExc THEN OutRaise(g, r.exc)
                 ELSE LET l == Language_init(r.code, NoneArg, NoneArg, None)
                      IN  Out(g, l.exc, l.value, <<>>, <<>>)

\* __str__ with the script appended before the country.
Language_str_script_first(w, self) ==
    LET a == Language_getattr(w, self, "alpha2")
    IN  IF a.exc \notin {NoExc, LanguageConvertError} THEN a
        ELSE LET s0 == IF a.exc = LanguageConvertError THEN <<self.alpha3>> ELSE a.text
                 s1 == IF self.script # None THEN Append2(s0, self.script) ELSE s0
                 s2 == IF self.country # None THEN Append2(s1, self.country) ELSE s1
             IN  OutText(a.w, s2)

\* __str__ falling back to alpha3 on a missing attribute as well.
Language_str_falls_back_on_missing(w, self) ==
    LET a == Language_getattr(w, self, "alpha2")
    IN  IF a.exc \notin {NoExc, LanguageConvertError, NoAttribute} THEN a
        ELSE LET s0 == IF a.exc # NoExc THEN <<self.alpha3>> ELSE a.text
                 s1 == IF self.country # None THEN Append2(s0, self.country) ELSE s0
                 s2 == IF self.script # None THEN Append2(s1, self.script) ELSE s1
             IN  OutText(a.w, s2)

\* Language.__str__(self)
Language_str(w, self) ==
    LET a == Language_getattr(w, self, "alpha2")
    IN  IF a.exc \notin {NoExc, LanguageConvertError} THEN a
        ELSE LET s0 == IF a.exc = LanguageConvertError THEN <<self.alpha3>> ELSE a.text
                 s1 == IF self.country # None THEN Append2(s0, self.country) ELSE s0
                 s2 == IF self.script # None THEN Append2(s1, self.script) ELSE s1
             IN  OutText(a.w, s2)

\* The loop without the test for subtags left after the script.
RECURSIVE ParseSubtags_ignores_rest(_, _, _)
ParseSubtags_ignores_rest(w, language, subtags) ==
    IF subtags = <<>> THEN OutValue(w, language)
    ELSE LET subtag == Head(subtags)
             rest == Tail(subtags)
             c == IF Len(subtag) = 2 THEN Country(Upper(subtag))
                                     ELSE Script(Capitalize(subtag))
             l == IF Len(subtag) = 2 THEN [language EXCEPT !.country = c.value]
                                     ELSE [language EXCEPT !.script = c.value]
         IN  IF c.exc # NoExc THEN OutRaise(w, c.exc)
             ELSE IF l.script # None THEN OutValue(w, l)
             ELSE ParseSubtags_ignores_rest(w, l, rest)

\* The loop keeping the first country it met.
RECURSIVE ParseSubtags_keeps_first_country(_, _, _)
ParseSubtags_keeps_first_country(w, language, subtags) ==
    IF subtags = <<>> THEN OutValue(w, language)
    ELSE LET subtag == Head(subtags)
             rest == Tail(subtags)
             c == IF Len(subtag) = 2 THEN Country(Upper(subtag))
                                     ELSE Script(Capitalize(subtag))
             l == IF Len(subtag) = 2
                  THEN IF language.country = None
                       THEN [language EXCEPT !.country = c.value]
                       ELSE language
                  ELSE [language EXCEPT !.script = c.value]
         IN  IF c.exc # NoExc THEN OutRaise(w, c.exc)
             ELSE IF l.script # None
                  THEN IF rest # <<>>
                       THEN Out(w, WrongFormat, NoLanguage, <<>>, rest)
                       ELSE OutValue(w, l)
                  ELSE ParseSubtags_keeps_first_country(w, l, rest)

\* The loop testing for subtags after a script before it validates the script.
RECURSIVE ParseSubtags_checks_rest_first(_, _, _)
ParseSubtags_checks_rest_first(w, language, subtags) ==
    IF subtags = <<>> THEN OutValue(w, language)
    ELSE LET subtag == Head(subtags)
             rest == Tail(subtags)
             c == IF Len(subtag) = 2 THEN Country(Upper(subtag))
                                     ELSE Script(Capitalize(subtag))
             l == IF Len(subtag) = 2 THEN [language EXCEPT !.country = c.value]
                                     ELSE [language EXCEPT !.script = c.value]
         IN  IF Len(subtag) # 2 /\ rest # <<>>
             THEN Out(w, WrongFormat, NoLanguage, <<>>, rest)
             ELSE IF c.exc # NoExc THEN OutRaise(w, c.exc)
             ELSE IF l.script # None THEN OutValue(w, l)
             ELSE ParseSubtags_checks_rest_first(w, l, rest)

\* The while loop of fromietf: language is the Language built so far.
RECURSIVE ParseSubtags(_, _, _)
ParseSubtags(w, language, subtags) ==
    IF subtags = <<>> THEN OutValue(w, language)
    ELSE LET subtag == Head(subtags)
             rest == Tail(subtags)
             c == IF Len(subtag) = 2 THEN Country(Upper(subtag))
                                     ELSE Script(Capitalize(subtag))
             l == IF Len(subtag) = 2 THEN [language EXCEPT !.country = c.value]
                                     ELSE [language EXCEPT !.script = c.value]
         IN  IF c.exc # NoExc THEN OutRaise(w, c.exc)
             ELSE IF l.script # None
                  THEN IF rest # <<>>
                       THEN Out(w, WrongFormat, NoLanguage, <<>>, rest)
                       ELSE OutValue(w, l)
                  ELSE ParseSubtags(w, l, rest)

\* cls.fromalpha2(language_subtag): the class attribute, when the class has it
Language_fromalpha2(w, code) ==
    IF FromAttr("alpha2") \in DOMAIN w.attrs
    THEN Language_fromcode(w, code, w.attrs[FromAttr("alpha2")].converter)
    ELSE OutRaise(w, NoAttribute)

\* Language.fromietf(ietf)
Language_fromietf(w, ietf) ==
    LET subtags == Split(ietf)
        language_subtag == Lower(Head(subtags))
        language ==
            IF Len(language_subtag) = 2
            THEN Language_fromalpha2(w, language_subtag)
            ELSE LET l == Language_init(language_subtag, NoneArg, NoneArg, None)
                 IN  Out(w, l.exc, l.value, <<>>, <<>>)
    IN  IF language.exc # NoExc THEN language
        ELSE ParseSubtags(language.w, language.value, Tail(subtags))

\* Country.__eq__ and Script.__eq__, and None == None: by the code
SameCode(a, b) == a = b

\* __eq__ without the comparison of the scripts.
Language_eq_ignores_script(self, other) ==
    IF other = NoLanguage THEN FALSE
    ELSE /\ self.alpha3 = other.alpha3
         /\ SameCode(self.country, other.country)

\* Language.__eq__(self, other); NoLanguage stands for other = None
Language_eq(self, other) ==
    IF other = NoLanguage THEN FALSE
    ELSE /\ self.alpha3 = other.alpha3
         /\ SameCode(self.country, other.country)
         /\ SameCode(self.script, other.script)

\* Language.__ne__(self, other)
Language_ne(self, other) == ~Language_eq(self, other)

\* Language.__hash__(self): hash(str(self))
Language_hash(w, self) ==
    LET s == Language_str(w, self)
    IN  IF s.exc # NoExc THEN s
        ELSE [OutRaise(s.w, NoExc) EXCEPT !.hash = HashOf(s.text)]

----------------------------------------------------------------------------
(* The registry driven by one caller: each action is one call, start to    *)
(* finish.                                                                 *)

EmptyDict == [x \in {} |-> NoInstance]

NoCall == [op |-> "none", name |-> NoName, exc |-> NoExc, ret |-> NoInstance]
Brief(c) == [op |-> c.op, name |-> c.name, exc |-> c.exc]

\* The world the next call runs in.
Now == World(LANGUAGE_CONVERTERS, LanguageAttrs, nextInst)

\* The call op(name) ran and left the world w behind.
Ran(op, name, w) ==
    /\ w.next <= MaxInst
    /\ LANGUAGE_CONVERTERS' = w.conv
    /\ LanguageAttrs' = w.attrs
    /\ nextInst' = w.next
    /\ last' = [op |-> op, name |-> name, exc |-> w.exc, ret |-> w.ret]
    /\ prev' = Brief(last)
    /\ UNCHANGED <<thrVars, langVars, envVars>>

Register(name, converter) ==
    Ran("register", name, register_language_converter(Now, name, converter))

Unregister(name) ==
    Ran("unregister", name, unregister_language_converter(Now, name))

Get(name) ==
    Ran("get", name, get_language_converter(Now, name))

LoadAll ==
    Ran("loadAll", NoName, load_language_converters(Now))

Clear ==
    \E order \in Orders(DOMAIN LANGUAGE_CONVERTERS) :
        Ran("clear", NoName, clear_language_converters(Now, order))

Threads == {1, 2}

InitRegistry ==
    /\ LANGUAGE_CONVERTERS = EmptyDict
    /\ LanguageAttrs = ClassBody
    /\ nextInst = 0

InitCaller ==
    /\ last = NoCall
    /\ prev = Brief(NoCall)

InitThreads ==
    /\ pc = [t \in Threads |-> "idle"]
    /\ tname = [t \in Threads |-> NoName]
    /\ tep = [t \in Threads |-> 0]
    /\ texc = [t \in Threads |-> NoExc]
    /\ tret = [t \in Threads |-> NoInstance]

InitLanguage ==
    /\ call = NoConstruction
    /\ result = NoResult

\* The package is installed, its entry points visible to pkg_resources.
InitInstalled == installed = TRUE

Init == InitInstalled /\ InitRegistry /\ InitCaller /\ InitThreads /\ InitLanguage

Next ==
    \/ \E name \in Names, converter \in ConverterClasses : Register(name, converter)
    \/ \E name \in Names : Unregister(name)
    \/ \E name \in Names : Get(name)
    \/ LoadAll
    \/ Clear

Spec == Init /\ [][Next]_vars

----------------------------------------------------------------------------
(* get_language_converter called from two threads.  The functions take no  *)
(* lock, so a thread switch can fall between any two statements; pc[t] is  *)
(* the line thread t executes next.                                        *)

Goto(t, line) == pc' = [pc EXCEPT ![t] = line]

\* Thread t calls get_language_converter(name).
TCall(t, name) ==
    /\ pc[t] = "idle"
    /\ Goto(t, "L156")
    /\ tname' = [tname EXCEPT ![t] = name]
    /\ tep' = [tep EXCEPT ![t] = 0]
    /\ texc' = [texc EXCEPT ![t] = NoExc]
    /\ tret' = [tret EXCEPT ![t] = NoInstance]
    /\ UNCHANGED <<regVars, seqVars, langVars, envVars>>

\* Lines 156-157: if name in LANGUAGE_CONVERTERS: return LANGUAGE_CONVERTERS[name]
TLookup(t) ==
    /\ pc[t] = "L156"
    /\ IF tname[t] \in DOMAIN LANGUAGE_CONVERTERS
       THEN /\ tret' = [tret EXCEPT ![t] = LANGUAGE_CONVERTERS[tname[t]]]
            /\ Goto(t, "done")
       ELSE /\ Goto(t, "L158")
            /\ UNCHANGED tret
    /\ UNCHANGED <<tname, tep, texc, regVars, seqVars, langVars, envVars>>

\* Lines 158-160 and 162: the loop over the entry points, ending in the call of
\* register_language_converter(name, ep.load()) or in raise KeyError(name).
TDiscover(t) ==
    /\ pc[t] = "L158"
    /\ IF Matching(tname[t]) # {}
       THEN /\ tep' = [tep EXCEPT ![t] = FirstMatching(tname[t])]
            /\ Goto(t, "L178")
            /\ UNCHANGED texc
       ELSE /\ texc' = [texc EXCEPT ![t] = UnknownScheme]
            /\ Goto(t, "done")
            /\ UNCHANGED tep
    /\ UNCHANGED <<tname, tret, regVars, seqVars, langVars, envVars>>

\* Lines 178-179: if name in LANGUAGE_CONVERTERS: raise ValueError(...); the
\* exception leaves get_language_converter, which catches nothing.
TRegisterCheck(t) ==
    /\ pc[t] = "L178"
    /\ IF tname[t] \in DOMAIN LANGUAGE_CONVERTERS
       THEN /\ texc' = [texc EXCEPT ![t] = AlreadyExists]
            /\ Goto(t, "done")
       ELSE /\ Goto(t, "L180")
            /\ UNCHANGED texc
    /\ UNCHANGED <<tname, tep, tret, regVars, seqVars, langVars, envVars>>

\* Line 180: LANGUAGE_CONVERTERS[name] = converter()
TRegisterStore(t) ==
    /\ pc[t] = "L180"
    /\ nextInst < MaxInst
    /\ LANGUAGE_CONVERTERS' =
           SetItem(LANGUAGE_CONVERTERS, tname[t], Instantiate(Now, iter_entry_points[tep[t]].load))
    /\ nextInst' = nextInst + 1
    /\ Goto(t, "L181")
    /\ UNCHANGED <<LanguageAttrs, tname, tep, texc, tret, seqVars, langVars, envVars>>

\* Lines 181-182: the isinstance test and the setattr.
TRegisterAttr(t) ==
    /\ pc[t] = "L181"
    /\ LET w == IF IsReverse(LANGUAGE_CONVERTERS[tname[t]])
                THEN SetFromAttr(Now, tname[t])
                ELSE Now
       IN  /\ LanguageAttrs' = w.attrs
           /\ texc' = [texc EXCEPT ![t] = w.exc]
           /\ Goto(t, IF w.exc = NoExc THEN "L161" ELSE "done")
    /\ UNCHANGED <<LANGUAGE_CONVERTERS, nextInst, tname, tep, tret, seqVars, langVars, envVars>>

\* Line 161: return LANGUAGE_CONVERTERS[name]
TReturn(t) ==
    /\ pc[t] = "L161"
    /\ tret' = [tret EXCEPT ![t] = LANGUAGE_CONVERTERS[tname[t]]]
    /\ Goto(t, "done")
    /\ UNCHANGED <<tname, tep, texc, regVars, seqVars, langVars, envVars>>

NextThreads ==
    \/ \E t \in Threads, name \in Names : TCall(t, name)
    \/ \E t \in Threads : TLookup(t)
    \/ \E t \in Threads : TDiscover(t)
    \/ \E t \in Threads : TRegisterCheck(t)
    \/ \E t \in Threads : TRegisterStore(t)
    \/ \E t \in Threads : TRegisterAttr(t)
    \/ \E t \in Threads : TReturn(t)

SpecThreads == Init /\ [][NextThreads]_vars

InitConstruction ==
    /\ InitInstalled /\ InitRegistry /\ InitCaller /\ InitThreads
    /\ call \in Constructions
    /\ result = NoResult

NextLanguage == Construct

SpecLanguage == InitConstruction /\ [][NextLanguage]_vars

----------------------------------------------------------------------------
(* The operations of Language, each applied once to drawn arguments in a   *)
(* drawn state of the registry.                                            *)

\* The registry as the import leaves it and as clear_language_converters
\* leaves it; after load_language_converters; with the tests' TestConverter
\* registered as well; and after a reverse converter was registered under the
\* name 'code' and unregistered again.
Imported == World(EmptyDict, ClassBody, 0)
Loaded == load_language_converters(Imported)
LoadedWithTest == register_language_converter(Loaded, "test", ReverseClass)
CodeUnregistered ==
    unregister_language_converter(
        register_language_converter(Imported, "code", ReverseClass), "code")
RegistryWorlds == {Imported, Loaded, LoadedWithTest, CodeUnregistered}

\* Every Language value the constructor can make.
Languages ==
    {LanguageValue(a, c, sc) :
        a \in LANGUAGES, c \in COUNTRIES \cup {None}, sc \in SCRIPTS \cup {None}}

\* The subtags the tags are made of.
LanguageSubtags == {"fr", "FR", "fra", "eng", "und", "zz", "zzz", ""}
OtherSubtags == {"FR", "us", "ZZ", "Latn", "cyrl", "Wxyz"}

SeqsUpTo(S, n) == UNION {[1..k -> S] : k \in 0..n}

Tags == {Join(<<first>> \o others) :
            first \in LanguageSubtags, others \in SeqsUpTo(OtherSubtags, MaxSubtags)}

OpCall(op, ietf, self, other, name) ==
    [op |-> op, ietf |-> ietf, self |-> self, other |-> other, name |-> name]

OpCalls ==
    {OpCall("fromietf", t, NoLanguage, NoLanguage, NoName) : t \in Tags}
    \cup {OpCall(op, <<>>, l, NoLanguage, NoName) :
             op \in {"str", "roundtrip", "hash"}, l \in Languages}
    \cup {OpCall("getattr", <<>>, l, NoLanguage, n) : l \in Languages, n \in Names}
    \cup {OpCall("eq", <<>>, l, o, NoName) :
             l \in Languages, o \in Languages \cup {NoLanguage}}

OpResult(out, eq) ==
    [done |-> TRUE, exc |-> out.exc, value |-> out.value, text |-> out.text,
     rest |-> out.rest, hash |-> out.hash, eq |-> eq]
NoOpResult ==
    [done |-> FALSE, exc |-> NoExc, value |-> NoLanguage, text |-> <<>>,
     rest |-> <<>>, hash |-> NoHash, eq |-> FALSE]

\* The operation call.op returned out (and eq, when it compares).
Returned(op, out, eq) ==
    /\ call.op = op
    /\ ~result.done
    /\ \E o \in {out} :
        /\ result' = OpResult(o, eq)
        /\ LANGUAGE_CONVERTERS' = o.w.conv
        /\ LanguageAttrs' = o.w.attrs
        /\ nextInst' = o.w.next
    /\ UNCHANGED <<call, seqVars, thrVars, envVars>>

\* Language.fromietf(call.ietf)
FromIetf == Returned("fromietf", Language_fromietf(Now, call.ietf), FALSE)

\* str(call.self)
Str == Returned("str", Language_str(Now, call.self), FALSE)

\* Language.fromietf(str(call.self)) == call.self, first half: str(call.self).
\* An exception of str ends the comparison.
RoundTripStr ==
    /\ call.op = "roundtrip"
    /\ result = NoOpResult
    /\ \E o \in {Language_str(Now, call.self)} :
        /\ result' = [OpResult(o, FALSE) EXCEPT !.done = (o.exc # NoExc)]
        /\ LANGUAGE_CONVERTERS' = o.w.conv
        /\ LanguageAttrs' = o.w.attrs
        /\ nextInst' = o.w.next
    /\ UNCHANGED <<call, seqVars, thrVars, envVars>>

\* Second half: Language.fromietf of the text, compared with call.self.
RoundTripFromIetf ==
    /\ call.op = "roundtrip"
    /\ result # NoOpResult
    /\ ~result.done
    /\ \E o \in {Language_fromietf(Now, result.text)} :
        Returned("roundtrip", [o EXCEPT !.text = result.text],
                 o.exc = NoExc /\ Language_eq(o.value, call.self))

\* getattr(call.self, call.name)
GetAttr == Returned("getattr", Language_getattr(Now, call.self, call.name), FALSE)

\* call.self == call.other
Eq == Returned("eq", OutRaise(Now, NoExc), Language_eq(call.self, call.other))

\* hash(call.self)
Hash == Returned("hash", Language_hash(Now, call.self), FALSE)

InitOps ==
    /\ installed \in BOOLEAN
    /\ InitCaller /\ InitThreads
    /\ \E w \in RegistryWorlds :
        /\ LANGUAGE_CONVERTERS = w.conv
        /\ LanguageAttrs = w.attrs
        /\ nextInst = w.next
    /\ call \in OpCalls
    /\ result = NoOpResult

NextOps ==
    \/ FromIetf \/ Str \/ GetAttr \/ Eq \/ Hash
    \/ RoundTripStr \/ RoundTripFromIetf

SpecOps == InitOps /\ [][NextOps]_vars

----------------------------------------------------------------------------
(* What the claims speak of *)

Bound(name) == name \in DOMAIN LANGUAGE_CONVERTERS

\* Language.from<name> is the conversion-constructor of scheme name.
HasFromConstructor(name) ==
    /\ FromAttr(name) \in DOMAIN LanguageAttrs
    /\ LanguageAttrs[FromAttr(name)] = Partial(name)

\* The class an entry point advertises for name.
AdvertisedClass(name) == iter_entry_points[FirstMatching(name)].load

\* The call that just returned was op(name).
Called(op, name) == last'.op = op /\ last'.name = name

----------------------------------------------------------------------------
(* C1 *)

\* C1: in every state the registry can reach, Language has a from<name>
\* conversion-constructor if and only if name is bound to a reverse-capable
\* converter.  The code violates it: registering and unregistering a reverse
\* converter named "code" deletes Language.fromcode, and the next registration
\* of a reverse converter binds the name and then fails in setattr.
C1_ConstructorIffReverseBound ==
    \A name \in Names :
        HasFromConstructor(name) <=>
            (Bound(name) /\ IsReverse(LANGUAGE_CONVERTERS[name]))

----------------------------------------------------------------------------
(* C2 *)

C2_Step ==
    \A name \in DOMAIN LANGUAGE_CONVERTERS :
        Called("register", name) =>
            /\ last'.exc = AlreadyExists
            /\ LANGUAGE_CONVERTERS' = LANGUAGE_CONVERTERS
            /\ LanguageAttrs' = LanguageAttrs
            /\ nextInst' = nextInst

\* C2: register(name, factory) on a name that is already bound raises the
\* 'already exists' ValueError, creates no instance and leaves the registry
\* and the class attributes as they were.
C2_DuplicateRegisterRejected == [][C2_Step]_vars

\* A register that failed as a duplicate of a binding made by discovery in get.
C2_Witness ==
    /\ last.op = "register" /\ last.exc = AlreadyExists
    /\ prev.op = "get" /\ prev.name = last.name /\ prev.exc = NoExc
    /\ last.name \in Advertised /\ Bound(last.name)

----------------------------------------------------------------------------
(* C3 *)

C3_Step ==
    \A name \in Names :
        Called("get", name) =>
            IF name \in DOMAIN LANGUAGE_CONVERTERS
            THEN /\ last'.exc = NoExc
                 /\ last'.ret = LANGUAGE_CONVERTERS[name]
                 /\ UNCHANGED regVars
            ELSE IF name \in Advertised
            THEN /\ last'.exc = NoExc
                 /\ name \in DOMAIN LANGUAGE_CONVERTERS'
                 /\ last'.ret = LANGUAGE_CONVERTERS'[name]
                 /\ last'.ret = [id |-> nextInst, class |-> AdvertisedClass(name)]
            ELSE /\ last'.exc = UnknownScheme
                 /\ UNCHANGED regVars

\* C3: get(name) returns the bound converter and changes nothing; or, for an
\* unbound advertised name, instantiates, binds and returns the advertised
\* converter; or, for a name neither bound nor advertised, raises KeyError and
\* changes nothing.  The code has a fourth outcome: once Language.fromcode is
\* gone (C1), discovery of a reverse converter binds it and raises
\* AttributeError.
C3_GetThreeOutcomes == [][C3_Step]_vars

----------------------------------------------------------------------------
(* C4 *)

C4_Step ==
    /\ \A name \in DOMAIN LANGUAGE_CONVERTERS :
        /\ name \in DOMAIN LANGUAGE_CONVERTERS' =>
               LANGUAGE_CONVERTERS'[name] = LANGUAGE_CONVERTERS[name]
        /\ name \notin DOMAIN LANGUAGE_CONVERTERS' =>
               (Called("unregister", name) \/ last'.op = "clear")
        /\ Called("get", name) =>
               /\ last'.exc = NoExc
               /\ last'.ret = LANGUAGE_CONVERTERS[name]
               /\ nextInst' = nextInst
    /\ nextInst' - nextInst =
           Cardinality(DOMAIN LANGUAGE_CONVERTERS' \ DOMAIN LANGUAGE_CONVERTERS)

\* C4: a bound name keeps the very instance it was bound to until it is
\* unregistered or cleared; get of a bound name returns that instance and
\* instantiates nothing; and every instantiation makes exactly one new binding.
C4_SameInstanceWhileBound == [][C4_Step]_vars

\* Two gets in a row of a name that register bound: both return the instance.
C4_Witness ==
    /\ last.op = "get" /\ last.name = "test" /\ last.exc = NoExc
    /\ prev.op = "get" /\ prev.name = "test" /\ prev.exc = NoExc
    /\ Bound("test") /\ last.ret = LANGUAGE_CONVERTERS["test"]

----------------------------------------------------------------------------
(* C5 *)

C5_Step ==
    \A name \in Names :
        /\ (Called("unregister", name) /\ name \notin DOMAIN LANGUAGE_CONVERTERS) =>
               /\ last'.exc = DoesNotExist
               /\ UNCHANGED regVars
        /\ (Called("unregister", name) /\ last.op = "unregister" /\ last.name = name
                /\ last.exc = NoExc) =>
               last'.exc = DoesNotExist

\* C5: unregister(name) on an unbound name raises the 'does not exist'
\* ValueError and leaves the registry and the class attributes unchanged; so
\* the second of two unregisters of one name in a row fails.
C5_UnregisterUnboundFails == [][C5_Step]_vars

\* unregister(x) succeeded and the unregister(x) right after it failed.
C5_Witness ==
    /\ last.op = "unregister" /\ last.exc = DoesNotExist
    /\ prev.op = "unregister" /\ prev.name = last.name /\ prev.exc = NoExc

----------------------------------------------------------------------------
(* C6 *)

C6_Step ==
    /\ \A name \in DOMAIN LANGUAGE_CONVERTERS : LANGUAGE_CONVERTERS[name].id < nextInst
    /\ nextInst' >= nextInst
    /\ \A name \in Names :
        /\ (Called("unregister", name) /\ last'.exc = NoExc) =>
               name \notin DOMAIN LANGUAGE_CONVERTERS'
        /\ (last.op = "unregister" /\ last.name = name /\ last.exc = NoExc
                /\ Called("get", name)) =>
               IF name \in Advertised
               THEN /\ name \in DOMAIN LANGUAGE_CONVERTERS'
                    /\ LANGUAGE_CONVERTERS'[name] =
                           [id |-> nextInst, class |-> AdvertisedClass(name)]
                    /\ nextInst' = nextInst + 1
               ELSE /\ last'.exc = UnknownScheme
                    /\ UNCHANGED regVars

\* C6: a successful unregister(x) leaves x unbound, and the get(x) that follows
\* raises KeyError and changes nothing when x is not advertised, and otherwise
\* binds x to an instance created by that get (its id is the counter's value,
\* above the id of every instance created before).
C6_GetAfterUnregisterRediscovers == [][C6_Step]_vars

\* get(x) right after a successful unregister(x) bound x again, to a later
\* instance than the first.
C6_Witness ==
    /\ last.op = "get" /\ last.name \in Advertised
    /\ prev.op = "unregister" /\ prev.name = last.name /\ prev.exc = NoExc
    /\ Bound(last.name) /\ LANGUAGE_CONVERTERS[last.name].id >= 1

----------------------------------------------------------------------------
(* C7 *)

C7_Step ==
    last'.op = "loadAll" =>
        /\ (Advertised \cap DOMAIN LANGUAGE_CONVERTERS = {}) =>
               /\ last'.exc = NoExc
               /\ DOMAIN LANGUAGE_CONVERTERS' = DOMAIN LANGUAGE_CONVERTERS \cup Advertised
        /\ (Advertised \cap DOMAIN LANGUAGE_CONVERTERS # {}) =>
               last'.exc = AlreadyExists
        /\ (last.op = "clear" /\ last.exc = NoExc) =>
               last'.exc = NoExc

\* C7: loadAll with no advertised name bound binds every advertised name;
\* loadAll with an advertised name bound raises the 'already exists'
\* ValueError; loadAll right after clear succeeds.  The code violates it once
\* Language.fromcode is gone (C1): loadAll then raises AttributeError at the
\* first reverse converter.
C7_LoadAll == [][C7_Step]_vars

----------------------------------------------------------------------------
(* C8 *)

\* C8: clear() in any reachable state returns without an exception and leaves
\* the registry empty and Language without any from<name> constructor.  The
\* code violates it: a reverse converter bound without its constructor (C1)
\* makes delattr raise AttributeError inside clear.
C8_ClearEmptiesRegistry ==
    last.op = "clear" =>
        /\ last.exc = NoExc
        /\ LANGUAGE_CONVERTERS = EmptyDict
        /\ \A name \in Names : ~HasFromConstructor(name)

----------------------------------------------------------------------------
(* C9 *)

\* C9: a get(name) of an advertised name, run concurrently with another get,
\* ends by returning the converter bound to name, never with an exception.  The
\* code violates it: both threads can pass the test of line 156 before either
\* stores, and the second to reach line 178 raises the 'already exists'
\* ValueError, which get_language_converter lets through to its caller.
C9_ConcurrentGetReturns ==
    \A t \in Threads :
        (pc[t] = "done" /\ tname[t] \in Advertised) =>
            /\ texc[t] = NoExc
            /\ tret[t] = LANGUAGE_CONVERTERS[tname[t]]

----------------------------------------------------------------------------
(* C10 *)

\* C10: Language(code, unknown=fallback), without country and script: a valid
\* code gives alpha3 = code, with or without a fallback; an invalid code with a
\* valid fallback gives what Language(fallback) gives; an invalid code with no
\* fallback or an invalid one raises the 'not a valid language' ValueError.  And
\* every Language constructed, from whatever arguments, has an alpha3 in
\* LANGUAGES.
C10_ConstructValidatesCode ==
    result.done =>
        /\ result.exc = NoExc => result.value.alpha3 \in LANGUAGES
        /\ (call.country = NoneArg /\ call.script = NoneArg) =>
            IF call.language \in LANGUAGES
            THEN result = Made(LanguageValue(call.language, None, None))
            ELSE IF call.unknown # None /\ call.unknown \in LANGUAGES
            THEN /\ result = Language_init(call.unknown, NoneArg, NoneArg, None)
                 /\ result = Made(LanguageValue(call.unknown, None, None))
            ELSE result = Failed(InvalidLanguage)

\* An invalid code was replaced by the valid fallback.
C10_Witness ==
    /\ result.done /\ result.exc = NoExc
    /\ call.language \notin LANGUAGES
    /\ call.unknown \in LANGUAGES
    /\ result.value.alpha3 = call.unknown

----------------------------------------------------------------------------
(* C11 *)

\* C11: for every Language L whose alpha3 has an alpha2 code, with or without
\* a country and with or without a script, Language.fromietf(str(L)) returns
\* a Language equal to L.
C11_RoundTrip ==
    (call.op = "roundtrip" /\ result.done /\ call.self.alpha3 \in DOMAIN TO_ALPHA2) =>
        /\ result.exc = NoExc
        /\ result.eq

----------------------------------------------------------------------------
(* C12 *)

\* The subtags that follow the language segment of str(self).
C12_Tail(self) ==
    (IF self.country # None THEN <<self.country>> ELSE <<>>)
        \o (IF self.script # None THEN <<self.script>> ELSE <<>>)

C12_Step ==
    Str =>
        LET self == call.self
            a == Language_getattr(Now, self, "alpha2")
        IN  /\ a.exc = NoExc =>
                /\ result'.exc = NoExc
                /\ self.alpha3 \in DOMAIN TO_ALPHA2
                /\ result'.text = Join(<<TO_ALPHA2[self.alpha3]>> \o C12_Tail(self))
            /\ a.exc = LanguageConvertError =>
                /\ result'.exc = NoExc
                /\ self.alpha3 \notin DOMAIN TO_ALPHA2
                /\ result'.text = Join(<<self.alpha3>> \o C12_Tail(self))
            /\ a.exc \notin {NoExc, LanguageConvertError} =>
                result'.exc = a.exc

\* C12: str(L) is the language segment, then '-' and the country code when L
\* has a country, then '-' and the script code when L has a script.  The
\* language segment is what the alpha2 conversion of L.alpha3 returns, and
\* L.alpha3 itself when that conversion raises LanguageConvertError; any other
\* exception of the conversion leaves str.
C12_StrFormat == [][C12_Step]_vars

\* str of a Language with no alpha2 code, a country and a script returned.
C12_Witness ==
    /\ call.op = "str" /\ result.done /\ result.exc = NoExc
    /\ call.self.alpha3 \notin DOMAIN TO_ALPHA2
    /\ call.self.country # None /\ call.self.script # None
    /\ result.text = <<call.self.alpha3, Hyphen, call.self.country, Hyphen, call.self.script>>

----------------------------------------------------------------------------
(* C13 *)

\* The subtags of a tag: the pieces at the odd places, the hyphens between.
SubtagsOf(ietf) == [i \in 1..((Len(ietf) + 1) \div 2) |-> ietf[2 * i - 1]]

IsCountrySubtag(subtag) == Len(subtag) = 2 /\ Upper(subtag) \in COUNTRIES
IsScriptSubtag(subtag) == Len(subtag) # 2 /\ Capitalize(subtag) \in SCRIPTS

\* The language subtag of the tag is accepted in the registry as it is now.
LanguageAccepted(ietf) == Language_fromietf(Now, <<ietf[1]>>).exc = NoExc

\* Subtag k is a script code, further subtags follow it, and the parse gets
\* there: the language is accepted and the subtags between are country codes.
ScriptBeforeEnd(ietf, k) ==
    LET subtags == SubtagsOf(ietf)
    IN  /\ k \in 2..(Len(subtags) - 1)
        /\ IsScriptSubtag(subtags[k])
        /\ \A j \in 2..(k - 1) : IsCountrySubtag(subtags[j])
        /\ LanguageAccepted(ietf)

C13_Step ==
    FromIetf =>
        \A k \in 1..(MaxSubtags + 1) :
            ScriptBeforeEnd(call.ietf, k) =>
                /\ result'.exc = WrongFormat
                /\ result'.rest = SubSeq(SubtagsOf(call.ietf), k + 1, Len(SubtagsOf(call.ietf)))
                /\ result'.value = NoLanguage

----------------------------------------------------------------------------
(* C14 *)

\* The alpha3 codes whose alpha2 code is the given one.
Alpha2Of(code) == {a \in DOMAIN TO_ALPHA2 : TO_ALPHA2[a] = code}

\* The exceptions with which fromietf refuses the language subtag.
LanguageFailures == {InvalidLanguage, LanguageReverseError, NoAttribute}

\* C14: the first subtag of the tag, in lower case, is the language.  With a
\* length of 2 it goes through the reverse conversion of the alpha2 scheme: a
\* code with no alpha3 raises LanguageReverseError, any other gives that
\* alpha3.  With any other length it is taken as an alpha3 code: a code not in
\* LANGUAGES raises the 'not a valid language' ValueError, with no fallback,
\* and a code in LANGUAGES is the alpha3 of the Language.
C14_FirstSubtagIsLanguage ==
    (call.op = "fromietf" /\ result.done) =>
        LET first == Lower(SubtagsOf(call.ietf)[1])
        IN  IF Len(first) = 2
            THEN IF Alpha2Of(first) = {}
                 THEN result.exc = LanguageReverseError
                 ELSE /\ result.exc \notin LanguageFailures
                      /\ result.exc = NoExc => result.value.alpha3 \in Alpha2Of(first)
            ELSE IF first \notin LANGUAGES
                 THEN result.exc = InvalidLanguage
                 ELSE /\ result.exc \notin LanguageFailures
                      /\ result.exc = NoExc => result.value.alpha3 = first

----------------------------------------------------------------------------
(* C15 *)

\* The tag is an accepted language followed by two or more country codes.
SeveralCountries(ietf) ==
    LET subtags == SubtagsOf(ietf)
    IN  /\ Len(subtags) >= 3
        /\ \A j \in 2..Len(subtags) : IsCountrySubtag(subtags[j])
        /\ LanguageAccepted(ietf)

C15_Step ==
    (FromIetf /\ SeveralCountries(call.ietf)) =>
        LET subtags == SubtagsOf(call.ietf)
        IN  /\ result'.exc = NoExc
            /\ result'.value.alpha3 = Language_fromietf(Now, <<call.ietf[1]>>).value.alpha3
            /\ result'.value.country = Upper(subtags[Len(subtags)])
            /\ result'.value.script = None

----------------------------------------------------------------------------
(* C16 *)

C16_Step ==
    GetAttr =>
        LET name == call.name
            alpha3 == call.self.alpha3
            g == get_language_converter(Now, name)
        IN  /\ (~Bound(name) /\ name \notin Advertised) =>
                result'.exc = NoAttribute
            /\ g.exc = NoExc =>
                /\ LANGUAGE_CONVERTERS' = g.conv
                /\ IF alpha3 \in DOMAIN ForwardTable(name)
                   THEN /\ result'.exc = NoExc
                        /\ result'.text = <<ForwardTable(name)[alpha3]>>
                   ELSE result'.exc = LanguageConvertError
            /\ NoAttribute # LanguageConvertError

\* C16: L.<name> is get_language_converter(name).convert(alpha3, country,
\* script).  For a name neither bound nor advertised it raises AttributeError;
\* when the converter is found, the call returns what convert returns and lets
\* the LanguageConvertError of a code without a mapping through as it is, an
\* exception of another kind than the AttributeError.
C16_NamedConversion == [][C16_Step]_vars

\* L.test with no converter bound to 'test' and none advertised raised
\* AttributeError.
C16_Witness ==
    /\ call.op = "getattr" /\ result.done
    /\ call.name = "test"
    /\ ~Bound("test")
    /\ result.exc = NoAttribute

----------------------------------------------------------------------------
(* C17 *)

C17_Step ==
    /\ Eq =>
        /\ result'.exc = NoExc
        /\ result'.eq <=> (call.self = call.other)
        /\ call.other = NoLanguage => ~result'.eq
    /\ Hash =>
        LET s == Language_str(Now, call.self)
        IN  IF s.exc # NoExc THEN result'.exc = s.exc
            ELSE /\ result'.exc = NoExc
                 /\ \E segment \in {call.self.alpha3} \cup {TO_ALPHA2[a] : a \in DOMAIN TO_ALPHA2} :
                        result'.hash = HashOf(Join(<<segment>> \o C12_Tail(call.self)))
                 /\ result'.hash = HashOf(s.text)

\* C17: L == M exactly when L and M have the same alpha3, the same country and
\* the same script, no country and no script being the same only as no
\* country and no script; L == None is false; and hash(L) is the hash of the
\* text str(L) returns in the same state of the registry, so that two equal
\* Languages have the same hash there.
C17_EqualityAndHash == [][C17_Step]_vars

\* Two Languages that differ in the script alone compared unequal.
C17_Witness ==
    /\ call.op = "eq" /\ result.done
    /\ call.other # NoLanguage
    /\ call.self.alpha3 = call.other.alpha3
    /\ call.self.country = call.other.country
    /\ call.self.script # call.other.script
    /\ ~result.eq

----------------------------------------------------------------------------
(* C18 *)

\* The places of the subtags fromietf cannot go past: a subtag that is neither
\* a country nor a script code, or a script code with subtags after it.
Stops(subtags) ==
    {k \in 2..Len(subtags) :
        \/ ~IsCountrySubtag(subtags[k]) /\ ~IsScriptSubtag(subtags[k])
        \/ IsScriptSubtag(subtags[k]) /\ k < Len(subtags)}

\* What is wrong with the tag, the language first and then the subtags from
\* left to right.
FailureMode(ietf) ==
    LET subtags == SubtagsOf(ietf)
    IN  IF ~LanguageAccepted(ietf) THEN "language"
        ELSE IF Stops(subtags) = {} THEN "none"
        ELSE LET k == CHOOSE i \in Stops(subtags) : \A j \in Stops(subtags) : i <= j
             IN  IF IsScriptSubtag(subtags[k]) THEN "format"
                 ELSE IF Len(subtags[k]) = 2 THEN "country"
                 ELSE "script"

C18_Step ==
    FromIetf =>
        LET mode == FailureMode(call.ietf)
        IN  /\ mode = "language" <=> result'.exc \in LanguageFailures
            /\ mode = "country" <=> result'.exc = InvalidCountry
            /\ mode = "script" <=> result'.exc = InvalidScript
            /\ mode = "format" <=> result'.exc = WrongFormat
            /\ mode = "none" <=> result'.exc = NoExc

----------------------------------------------------------------------------
(* C19 *)

\* The attributes of Language other than 'from' + name are what they were.
OtherAttrsUnchanged(name) ==
    \A a \in (DOMAIN LanguageAttrs \cup DOMAIN LanguageAttrs') \ {FromAttr(name)} :
        /\ a \in DOMAIN LanguageAttrs
        /\ a \in DOMAIN LanguageAttrs'
        /\ LanguageAttrs'[a] = LanguageAttrs[a]

\* The bindings of the names other than name are what they were.
OtherBindingsUnchanged(name) ==
    \A m \in Names \ {name} :
        /\ m \in DOMAIN LANGUAGE_CONVERTERS' <=> m \in DOMAIN LANGUAGE_CONVERTERS
        /\ m \in DOMAIN LANGUAGE_CONVERTERS =>
               LANGUAGE_CONVERTERS'[m] = LANGUAGE_CONVERTERS[m]

\* Language.fromcode and Language.fromietf are what the class body made them.
BuiltInsUnchanged ==
    \A a \in DOMAIN ClassBody :
        (a \in DOMAIN LanguageAttrs /\ LanguageAttrs[a] = ClassBody[a]) =>
            (a \in DOMAIN LanguageAttrs' /\ LanguageAttrs'[a] = ClassBody[a])

C19_Step ==
    \A name \in Names :
        (Called("register", name) \/ Called("unregister", name)) =>
            /\ OtherBindingsUnchanged(name)
            /\ OtherAttrsUnchanged(name)
            /\ BuiltInsUnchanged

\* C19: register(n, C) and unregister(n) change the binding of n and the
\* attribute 'from' + n of Language and nothing else: every other name keeps
\* its binding, every other from<name> attribute stays, and Language.fromcode
\* and Language.fromietf are after the call what they were before it.
C19_RegisterFrame == [][C19_Step]_vars

----------------------------------------------------------------------------
(* C20 *)

\* The place in EntryPoints of the first advertised name that is bound.
FirstBound ==
    CHOOSE i \in 1..Len(EntryPoints) :
        /\ Bound(EntryPoints[i].name)
        /\ \A j \in 1..(i - 1) : ~Bound(EntryPoints[j].name)

C20_Step ==
    (Called("loadAll", NoName) /\ last'.exc = AlreadyExists) =>
        /\ \E i \in 1..Len(EntryPoints) : Bound(EntryPoints[i].name)
        /\ \A j \in 1..(FirstBound - 1) :
               /\ EntryPoints[j].name \in DOMAIN LANGUAGE_CONVERTERS'
               /\ LANGUAGE_CONVERTERS'[EntryPoints[j].name].class = EntryPoints[j].load
               /\ LANGUAGE_CONVERTERS'[EntryPoints[j].name].id >= nextInst
        /\ \A j \in FirstBound..Len(EntryPoints) :
               /\ EntryPoints[j].name \in DOMAIN LANGUAGE_CONVERTERS' <=> Bound(EntryPoints[j].name)
               /\ Bound(EntryPoints[j].name) =>
                      LANGUAGE_CONVERTERS'[EntryPoints[j].name] = LANGUAGE_CONVERTERS[EntryPoints[j].name]

\* C20: a load_language_converters that raises the 'already exists' ValueError
\* has registered every entry point before the first one whose name was
\* bound, and these stay bound; it has registered none from that one on.
C20_LoadAllNotAtomic == [][C20_Step]_vars

\* load_language_converters right after unregister('alpha2') raised 'already
\* exists' at 'scope' and left alpha2 bound.
C20_Witness ==
    /\ last.op = "loadAll" /\ last.exc = AlreadyExists
    /\ prev.op = "unregister" /\ prev.name = "alpha2" /\ prev.exc = NoExc
    /\ Bound("alpha2") /\ Bound("scope")

----------------------------------------------------------------------------
(* C21 *)

C21_Step ==
    (Str \/ Hash) =>
        /\ Bound("alpha2") =>
               LANGUAGE_CONVERTERS' = LANGUAGE_CONVERTERS
        /\ (~Bound("alpha2") /\ "alpha2" \in Advertised) =>
               /\ LANGUAGE_CONVERTERS' =
                      SetItem(LANGUAGE_CONVERTERS, "alpha2",
                              [id |-> nextInst, class |-> AdvertisedClass("alpha2")])
               /\ nextInst' = nextInst + 1
        /\ (~Bound("alpha2") /\ "alpha2" \notin Advertised) =>
               /\ result'.exc = NoAttribute
               /\ result'.text = <<>>
               /\ result'.hash = NoHash
               /\ UNCHANGED regVars

\* C21: str(L) and hash(L) look alpha2 up in the registry when they are
\* called.  With alpha2 bound they change no binding; with alpha2 unbound and
\* advertised by an entry point they leave it bound to a new instance of the
\* advertised class; with alpha2 unbound and not advertised they raise
\* AttributeError, and return neither the alpha3 code nor a hash.
C21_StrResolvesAtCallTime == [][C21_Step]_vars

\* str(L) raised AttributeError with alpha2 unbound and no entry point
\* advertising it, for an L that has a country.
C21_Witness ==
    /\ call.op = "str" /\ result.done
    /\ ~installed /\ ~Bound("alpha2")
    /\ call.self.country # None
    /\ result.exc = NoAttribute
    /\ result.text = <<>>

====
